---------------------------- MODULE Spec2Model ----------------------------
(***************************************************************************)
(* The markdown annotation pipeline of qwik-city                           *)
(* (packages/qwik-city/src/buildtime/markdown/rehype.ts): rehypePage and   *)
(* its five stages, over one document tree at a time.                      *)
(*                                                                         *)
(* Strings are TLA+ strings, taken apart with Len, SubSeq and \o.          *)
(* JavaScript values that may be undefined, null, a boolean, a number or a *)
(* string are records [t |-> <typeof>, s |-> <text>].                      *)
(* A document tree is the root's child list; the elements the visitor      *)
(* reaches are the children of the root, in document order, each with the  *)
(* text of its descendants.                                                *)
(***************************************************************************)
EXTENDS Integers, Sequences, FiniteSets, TLC

VARIABLES
  queue,         \* documents the build has still to hand to the transformer
  pc,            \* position inside rehypePage's transformer
  mdast,         \* the tree being processed: [children |-> <<node, ...>>]
  sourcePath,    \* vfile.path of the document being processed
  pathname,      \* getPagePathname(ctx.opts, vfile.path)
  menuPathname,  \* getMenuPathname(ctx, pathname)
  ctx,           \* the build context: [routes |-> ..., menus |-> ...]
  fs,            \* the paths that exist on disk
  slugs,         \* the module-level Slugger: [occurrences |-> slug -> count]
  io,            \* existsSync calls and console.warn messages, in order
  begun          \* history: the tree, the registry and the length of io when the
                 \* transformer was entered

vars == <<queue, pc, mdast, sourcePath, pathname, menuPathname, ctx, fs,
          slugs, io, begun>>

----------------------------------------------------------------------------
(* JavaScript values *)

Undefined == [t |-> "undefined", s |-> ""]

Null == [t |-> "null", s |-> ""]

False == [t |-> "boolean", s |-> "false"]

Zero == [t |-> "number", s |-> "0"]

Str(s) == [t |-> "string", s |-> s]

\* ToBoolean: what `x || y` and `x && y` test.
Truthy(v) ==
  CASE v.t = "undefined" -> FALSE
    [] v.t = "null" -> FALSE
    [] v.t = "boolean" -> v.s = "true"
    [] v.t = "number" -> v.s # "0"
    [] OTHER -> v.s # ""

----------------------------------------------------------------------------
(* String.prototype methods *)

Char(s, i) == SubSeq(s, i, i)

UpperCase == "ABCDEFGHIJKLMNOPQRSTUVWXYZ"

LowerCase == "abcdefghijklmnopqrstuvwxyz"

UpperLetters == {Char(UpperCase, k) : k \in 1..Len(UpperCase)}

LowerOf ==
  [c \in UpperLetters |->
     Char(LowerCase, CHOOSE k \in 1..Len(UpperCase) : Char(UpperCase, k) = c)]

LowerChar(c) == IF c \in UpperLetters THEN LowerOf[c] ELSE c

RECURSIVE toLowerCase(_)
toLowerCase(s) ==
  IF s = "" THEN "" ELSE LowerChar(Char(s, 1)) \o toLowerCase(SubSeq(s, 2, Len(s)))

WhiteSpace == {" ", "\t", "\n"}

RECURSIVE trimStart(_)
trimStart(s) ==
  IF s # "" /\ Char(s, 1) \in WhiteSpace THEN trimStart(SubSeq(s, 2, Len(s))) ELSE s

RECURSIVE trimEnd(_)
trimEnd(s) ==
  IF s # "" /\ Char(s, Len(s)) \in WhiteSpace THEN trimEnd(SubSeq(s, 1, Len(s) - 1)) ELSE s

trim(s) == trimEnd(trimStart(s))

startsWith(s, prefix) ==
  Len(prefix) <= Len(s) /\ SubSeq(s, 1, Len(prefix)) = prefix

endsWith(s, suffix) ==
  Len(suffix) <= Len(s) /\ SubSeq(s, Len(s) - Len(suffix) + 1, Len(s)) = suffix

\* s.substring(0, end): end is clamped to 0..s.length.
substring0(s, end) ==
  SubSeq(s, 1, IF end < 0 THEN 0 ELSE IF end > Len(s) THEN Len(s) ELSE end)

\* s.split('/'): the pieces between the slashes, empty pieces kept.
RECURSIVE splitFrom(_, _, _)
splitFrom(s, i, piece) ==
  IF i > Len(s) THEN <<piece>>
  ELSE IF Char(s, i) = "/" THEN <<piece>> \o splitFrom(s, i + 1, "")
  ELSE splitFrom(s, i + 1, piece \o Char(s, i))

split(s) == splitFrom(s, 1, "")

\* parts.join('/')
RECURSIVE join(_)
join(parts) ==
  IF parts = <<>> THEN ""
  ELSE IF Len(parts) = 1 THEN parts[1]
  ELSE parts[1] \o "/" \o join(Tail(parts))

Digits == "0123456789"

\* '' + n for a non-negative integer n
RECURSIVE numToString(_)
numToString(n) ==
  IF n < 10 THEN Char(Digits, n + 1)
  ELSE numToString(n \div 10) \o Char(Digits, (n % 10) + 1)

----------------------------------------------------------------------------
(* path.dirname and path.resolve (posix), for an absolute source path *)

\* The path up to its last slash; the root for a file directly under it.
RECURSIVE lastSlash(_, _)
lastSlash(s, i) ==
  IF i = 0 THEN 0 ELSE IF Char(s, i) = "/" THEN i ELSE lastSlash(s, i - 1)

dirname(path) ==
  LET k == lastSlash(path, Len(path))
  IN IF k = 0 THEN "." ELSE IF k = 1 THEN "/" ELSE SubSeq(path, 1, k - 1)

\* Normalisation of the segments: '' and '.' dropped, '..' removes the
\* segment before it (and nothing at the root).
RECURSIVE normalizeSegments(_, _)
normalizeSegments(parts, acc) ==
  IF parts = <<>> THEN acc
  ELSE LET p == Head(parts)
       IN IF p = "" \/ p = "." THEN normalizeSegments(Tail(parts), acc)
          ELSE IF p = ".."
            THEN normalizeSegments(Tail(parts),
                                   IF acc = <<>> THEN acc ELSE SubSeq(acc, 1, Len(acc) - 1))
          ELSE normalizeSegments(Tail(parts), Append(acc, p))

\* resolve(from, to) for an absolute `from`: an absolute `to` replaces it.
resolve(from, to) ==
  LET joined == IF startsWith(to, "/") THEN to ELSE from \o "/" \o to
  IN "/" \o join(normalizeSegments(split(joined), <<>>))

existsSync(disk, path) == path \in disk

----------------------------------------------------------------------------
(* Tree nodes *)

NoProperties == [has |-> FALSE, href |-> Undefined, id |-> Undefined]

Properties(href, id) == [has |-> TRUE, href |-> href, id |-> id]

Element(tagName, properties, text) ==
  [type |-> "element", tagName |-> tagName, properties |-> properties, text |-> text]

Text(value) ==
  [type |-> "text", tagName |-> "", properties |-> NoProperties, text |-> value]

\* unist-util-visit with the test 'element': the nodes the visitor is called on.
Visited(node) == node.type = "element"

----------------------------------------------------------------------------
(* Local-Link Resolver *)

WarnEvent(href, path) ==
  [op |-> "warn",
   arg |-> "\nThe link \"" \o href \o "\", found within \"" \o path
           \o "\", does not have a matching source file.\n"]

ExistsEvent(path) == [op |-> "existsSync", arg |-> path]

isLocalHrefCaseSensitive(href) ==
  ~ ( href = ""
      \/ startsWith(href, "#")
      \/ startsWith(href, "https://")
      \/ startsWith(href, "http://")
      \/ startsWith(href, "about:") )

isLocalHref(href) ==
  LET lower == toLowerCase(href)
  IN ~ ( lower = ""
         \/ startsWith(lower, "#")
         \/ startsWith(lower, "https://")
         \/ startsWith(lower, "http://")
         \/ startsWith(lower, "about:") )

\* The visitor of updateContentLinks on one node: the node as it leaves it
\* and the existsSync calls and warnings it made.
linkVisitor(node, path, disk) ==
  LET tagName == toLowerCase(node.tagName)
      raw == IF node.properties.has /\ Truthy(node.properties.href)
             THEN node.properties.href.s ELSE ""
      href == trim(raw)
      lowerHref == toLowerCase(href)
      mdxPath == resolve(dirname(path), href)
      cut(n) == [node EXCEPT !.properties.href = Str(substring0(raw, Len(href) - n))]
  IN IF tagName # "a" THEN [node |-> node, events |-> <<>>]
     ELSE IF ~ isLocalHref(href) THEN [node |-> node, events |-> <<>>]
     ELSE IF ~ (endsWith(lowerHref, ".mdx") \/ endsWith(lowerHref, ".md"))
       THEN [node |-> node, events |-> <<>>]
     ELSE IF ~ existsSync(disk, mdxPath)
       THEN [node |-> node, events |-> <<ExistsEvent(mdxPath), WarnEvent(href, path)>>]
     ELSE IF endsWith(lowerHref, ".mdx")
       THEN [node |-> cut(4), events |-> <<ExistsEvent(mdxPath)>>]
     ELSE [node |-> cut(3), events |-> <<ExistsEvent(mdxPath)>>]

\* A traversal that a broken link ends.
RECURSIVE updateContentLinksAborting(_, _, _)
updateContentLinksAborting(children, path, disk) ==
  IF children = <<>> THEN [children |-> <<>>, events |-> <<>>]
  ELSE IF ~ Visited(Head(children))
    THEN LET rest == updateContentLinksAborting(Tail(children), path, disk)
         IN [children |-> <<Head(children)>> \o rest.children, events |-> rest.events]
  ELSE LET v == linkVisitor(Head(children), path, disk)
           broken == \E k \in 1..Len(v.events) : v.events[k].op = "warn"
           rest == IF broken THEN [children |-> Tail(children), events |-> <<>>]
                   ELSE updateContentLinksAborting(Tail(children), path, disk)
       IN [children |-> <<v.node>> \o rest.children, events |-> v.events \o rest.events]

\* updateContentLinks: the visitor on every element, in document order.
RECURSIVE updateContentLinks(_, _, _)
updateContentLinks(children, path, disk) ==
  IF children = <<>> THEN [children |-> <<>>, events |-> <<>>]
  ELSE LET rest == updateContentLinks(Tail(children), path, disk)
           v == IF Visited(Head(children))
                THEN linkVisitor(Head(children), path, disk)
                ELSE [node |-> Head(children), events |-> <<>>]
       IN [children |-> <<v.node>> \o rest.children, events |-> v.events \o rest.events]

----------------------------------------------------------------------------
(* Export Injector *)

Binding(identifierName, val) ==
  [type |-> "mdxjsEsm", name |-> identifierName, init |-> val]

createExportAppending(children, identifierName, val) ==
  Append(children, Binding(identifierName, val))

\* mdast.children.unshift(mdxjsEsm)
createExport(children, identifierName, val) ==
  <<Binding(identifierName, val)>> \o children

----------------------------------------------------------------------------
(* Heading Slugger *)

\* The characters the slugger's expression removes, among those of the inputs.
Removed == {"!", "?", ".", ",", "'"}

\* github-slugger's slugger(string): lower case, the removed characters
\* dropped, every space replaced by a hyphen.
RECURSIVE slugReplace(_)
slugReplace(s) ==
  IF s = "" THEN ""
  ELSE LET c == Char(s, 1)
           rest == slugReplace(SubSeq(s, 2, Len(s)))
       IN IF c \in Removed THEN rest
          ELSE IF c = " " THEN "-" \o rest
          ELSE c \o rest

slugger(string) == slugReplace(toLowerCase(string))

NoOccurrences == [x \in {} |-> 0]

\* Slugger.reset()
slugsReset(registry) == [occurrences |-> NoOccurrences]

\* The loop of Slugger.slug: count up the original slug's occurrences until
\* the result is not registered.
RECURSIVE slugLoop(_, _, _)
slugLoop(occurrences, originalSlug, result) ==
  IF result \in DOMAIN occurrences
  THEN LET counted == [occurrences EXCEPT ![originalSlug] = @ + 1]
       IN slugLoop(counted, originalSlug,
                   originalSlug \o "-" \o numToString(counted[originalSlug]))
  ELSE [registry |-> [occurrences |-> occurrences @@ (result :> 0)], slug |-> result]

\* Slugger.slug(value)
slugsSlug(registry, value) ==
  slugLoop(registry.occurrences, slugger(value), slugger(value))

\* hast-util-heading-rank: 1..6 for h1..h6 in any letter case, 0 for null.
headingRank(node) ==
  LET name == IF node.type = "element" THEN toLowerCase(node.tagName) ELSE ""
  IN IF Len(name) = 2 /\ Char(name, 1) = "h"
        /\ \E k \in 1..6 : Char(name, 2) = Char(Digits, k + 1)
     THEN CHOOSE k \in 1..6 : Char(name, 2) = Char(Digits, k + 1)
     ELSE 0

hasPropertyTruthy(node, propName) ==
  node.type = "element" /\ node.properties.has /\ propName = "id"
  /\ Truthy(node.properties.id)

\* hasProperty(node, 'id'): an own property that is neither null/undefined
\* nor false.
hasProperty(node, propName) ==
  LET value == IF propName # "" /\ node.type = "element" /\ node.properties.has
                  /\ propName = "id"
               THEN node.properties.id ELSE False
  IN value.t \notin {"null", "undefined"} /\ value # False

\* hast-util-to-string
toString(node) == node.text

\* The visitor of exportContentHeadings over the children, from a registry.
RECURSIVE visitHeadings(_, _)
visitHeadings(children, registry) ==
  IF children = <<>> THEN [children |-> <<>>, headings |-> <<>>, registry |-> registry]
  ELSE LET node == Head(children)
           level == headingRank(node)
       IN IF Visited(node) /\ level # 0 /\ node.properties.has /\ ~ hasProperty(node, "id")
          THEN LET text == toString(node)
                   r == slugsSlug(registry, text)
                   rest == visitHeadings(Tail(children), r.registry)
               IN [children |-> <<[node EXCEPT !.properties.id = Str(r.slug)]>>
                                \o rest.children,
                   headings |-> <<[text |-> text, id |-> r.slug, level |-> level]>>
                                \o rest.headings,
                   registry |-> rest.registry]
          ELSE LET rest == visitHeadings(Tail(children), registry)
               IN [children |-> <<node>> \o rest.children,
                   headings |-> rest.headings,
                   registry |-> rest.registry]

exportContentHeadingsNoReset(children, registry) ==
  LET v == visitHeadings(children, registry)
  IN [children |-> createExport(v.children, "headings", v.headings),
      registry |-> v.registry]

\* A registry reset before every heading.
RECURSIVE visitHeadingsResetting(_)
visitHeadingsResetting(children) ==
  IF children = <<>> THEN [children |-> <<>>, headings |-> <<>>]
  ELSE LET one == visitHeadings(<<Head(children)>>, slugsReset(<<>>))
           rest == visitHeadingsResetting(Tail(children))
       IN [children |-> one.children \o rest.children,
           headings |-> one.headings \o rest.headings]

exportContentHeadingsResetting(children, registry) ==
  LET v == visitHeadingsResetting(children)
  IN [children |-> createExport(v.children, "headings", v.headings),
      registry |-> registry]

\* exportContentHeadings: the tree and the registry as it leaves them.
exportContentHeadings(children, registry) ==
  LET v == visitHeadings(children, slugsReset(registry))
  IN [children |-> createExport(v.children, "headings", v.headings),
      registry |-> v.registry]

----------------------------------------------------------------------------
(* Attribute Lookup *)

Route(path, hasAttributes, attributes) ==
  [pathname |-> path, hasAttributes |-> hasAttributes, attributes |-> attributes]

\* The first element of a sequence that satisfies Test, as Array.find.
RECURSIVE findRoute(_, _)
findRoute(routes, path) ==
  IF routes = <<>> THEN [found |-> FALSE, page |-> Route("", FALSE, <<>>)]
  ELSE IF Head(routes).pathname = path THEN [found |-> TRUE, page |-> Head(routes)]
  ELSE findRoute(Tail(routes), path)

\* exportPageAttributes: page?.attributes || {}
exportPageAttributes(context, children, path) ==
  LET f == findRoute(context.routes, path)
      attributes == IF f.found /\ f.page.hasAttributes THEN f.page.attributes ELSE <<>>
  IN createExport(children, "attributes", attributes)

----------------------------------------------------------------------------
(* Sibling-Index Resolver *)

Menu(path, hasItems, items) ==
  [pathname |-> path, hasItems |-> hasItems, items |-> items]

Item(text, href, hasItems, items) ==
  [text |-> text, href |-> href, hasItems |-> hasItems, items |-> items]

\* ctx.menus.find((m) => m.pathname === path), for a string or undefined path
RECURSIVE findMenu(_, _)
findMenu(menus, path) ==
  IF menus = <<>> THEN [found |-> FALSE, menu |-> Menu("", FALSE, <<>>)]
  ELSE IF path.t = "string" /\ Head(menus).pathname = path.s
    THEN [found |-> TRUE, menu |-> Head(menus)]
  ELSE findMenu(Tail(menus), path)

\* The number of iterations of getMenuPathname's loop.
MenuIterations == 9

\* parts.pop(); parts.join('/')
truncate(path) ==
  LET parts == split(path)
  IN join(SubSeq(parts, 1, Len(parts) - 1))

\* A loop that truncates before it looks the pathname up.
RECURSIVE menuLoopTruncateFirst(_, _, _)
menuLoopTruncateFirst(context, path, i) ==
  IF i >= MenuIterations THEN Undefined
  ELSE LET next == truncate(path)
       IN IF next = "/" THEN Undefined
          ELSE IF findMenu(context.menus, Str(next)).found THEN Str(next)
          ELSE menuLoopTruncateFirst(context, next, i + 1)

\* The loop of getMenuPathname from iteration i.
RECURSIVE menuLoop(_, _, _)
menuLoop(context, path, i) ==
  IF i >= MenuIterations THEN Undefined
  ELSE IF findMenu(context.menus, Str(path)).found THEN Str(path)
  ELSE LET next == truncate(path)
       IN IF next = "/" THEN Undefined ELSE menuLoop(context, next, i + 1)

getMenuPathname(context, path) == menuLoop(context, path, 0)

----------------------------------------------------------------------------
(* Menu Breadcrumb Resolver *)

Breadcrumb(item) == [text |-> item.text, href |-> item.href]

NoMatch == [found |-> FALSE, crumbs |-> <<>>]

\* for (const indexC of indexB.items)
RECURSIVE loopC(_, _, _, _)
loopC(items, path, breadcrumbA, breadcrumbB) ==
  IF items = <<>> THEN NoMatch
  ELSE IF Head(items).href = path
    THEN [found |-> TRUE, crumbs |-> <<breadcrumbA, breadcrumbB, Breadcrumb(Head(items))>>]
  ELSE loopC(Tail(items), path, breadcrumbA, breadcrumbB)

\* for (const indexB of indexA.items)
RECURSIVE loopB(_, _, _)
loopB(items, path, breadcrumbA) ==
  IF items = <<>> THEN NoMatch
  ELSE LET indexB == Head(items)
           breadcrumbB == Breadcrumb(indexB)
           inner == IF indexB.hasItems
                    THEN loopC(indexB.items, path, breadcrumbA, breadcrumbB)
                    ELSE NoMatch
       IN IF indexB.href = path
          THEN [found |-> TRUE, crumbs |-> <<breadcrumbA, breadcrumbB>>]
          ELSE IF inner.found THEN inner
          ELSE loopB(Tail(items), path, breadcrumbA)

\* A search that compares every top-level item before it descends.
RECURSIVE loopATopFirst(_, _)
loopATopFirst(items, path) ==
  IF \E k \in 1..Len(items) : items[k].href = path
  THEN LET k == CHOOSE j \in 1..Len(items) :
                  items[j].href = path /\ \A h \in 1..(j - 1) : items[h].href # path
       IN [found |-> TRUE, crumbs |-> <<Breadcrumb(items[k])>>]
  ELSE IF items = <<>> THEN NoMatch
  ELSE LET indexA == Head(items)
           inner == IF indexA.hasItems
                    THEN loopB(indexA.items, path, Breadcrumb(indexA))
                    ELSE NoMatch
       IN IF inner.found THEN inner ELSE loopATopFirst(Tail(items), path)

\* for (const indexA of menu.items)
RECURSIVE loopA(_, _)
loopA(items, path) ==
  IF items = <<>> THEN NoMatch
  ELSE LET indexA == Head(items)
           breadcrumbA == Breadcrumb(indexA)
           inner == IF indexA.hasItems
                    THEN loopB(indexA.items, path, breadcrumbA)
                    ELSE NoMatch
       IN IF indexA.href = path
          THEN [found |-> TRUE, crumbs |-> <<breadcrumbA>>]
          ELSE IF inner.found THEN inner
          ELSE loopA(Tail(items), path)

\* A match that does not return: the empty sequence is injected after it.
exportBreadcrumbsFallingThrough(context, children, path, menuPath) ==
  LET m == findMenu(context.menus, menuPath)
      search == IF m.found /\ m.menu.hasItems THEN loopA(m.menu.items, path) ELSE NoMatch
      matched == IF search.found
                 THEN createExport(children, "breadcrumbs", search.crumbs)
                 ELSE children
  IN createExport(matched, "breadcrumbs", <<>>)

\* exportBreadcrumbs: the match's chain, or the empty sequence.
exportBreadcrumbs(context, children, path, menuPath) ==
  LET m == findMenu(context.menus, menuPath)
      search == IF m.found /\ m.menu.hasItems THEN loopA(m.menu.items, path) ELSE NoMatch
  IN IF search.found
     THEN createExport(children, "breadcrumbs", search.crumbs)
     ELSE createExport(children, "breadcrumbs", <<>>)

\* exportPageIndex
exportPageIndex(context, children, indexPathname) ==
  createExport(children, "index", [path |-> indexPathname])

----------------------------------------------------------------------------
(* Pipeline Orchestrator: rehypePage's transformer, one stage per action *)

Document(children, path, pagePathname) ==
  [children |-> children, path |-> path, pathname |-> pagePathname]

\* The transformer is entered with the next document: lines 19-22.
Begin ==
  /\ pc \in {"idle", "done"}
  /\ queue # <<>>
  /\ LET vfile == Head(queue)
     IN /\ mdast' = [children |-> vfile.children]
        /\ sourcePath' = vfile.path
        /\ pathname' = vfile.pathname
        /\ menuPathname' = getMenuPathname(ctx, vfile.pathname)
        /\ begun' = [children |-> vfile.children, io |-> Len(io),
                     occurrences |-> slugs.occurrences]
  /\ queue' = Tail(queue)
  /\ pc' = "links"
  /\ UNCHANGED <<ctx, fs, slugs, io>>

UpdateContentLinks ==
  /\ pc = "links"
  /\ LET r == updateContentLinks(mdast.children, sourcePath, fs)
     IN /\ mdast' = [mdast EXCEPT !.children = r.children]
        /\ io' = io \o r.events
  /\ pc' = "headings"
  /\ UNCHANGED <<queue, sourcePath, pathname, menuPathname, ctx, fs, slugs, begun>>

ExportContentHeadings ==
  /\ pc = "headings"
  /\ LET r == exportContentHeadings(mdast.children, slugs)
     IN /\ mdast' = [mdast EXCEPT !.children = r.children]
        /\ slugs' = r.registry
  /\ pc' = "attributes"
  /\ UNCHANGED <<queue, sourcePath, pathname, menuPathname, ctx, fs, io, begun>>

ExportPageAttributes ==
  /\ pc = "attributes"
  /\ mdast' = [mdast EXCEPT !.children = exportPageAttributes(ctx, @, pathname)]
  /\ pc' = "breadcrumbs"
  /\ UNCHANGED <<queue, sourcePath, pathname, menuPathname, ctx, fs, slugs, io, begun>>

ExportBreadcrumbs ==
  /\ pc = "breadcrumbs"
  /\ mdast' = [mdast EXCEPT !.children = exportBreadcrumbs(ctx, @, pathname, menuPathname)]
  /\ pc' = "index"
  /\ UNCHANGED <<queue, sourcePath, pathname, menuPathname, ctx, fs, slugs, io, begun>>

ExportPageIndex ==
  /\ pc = "index"
  /\ mdast' = [mdast EXCEPT !.children = exportPageIndex(ctx, @, menuPathname)]
  /\ pc' = "done"
  /\ UNCHANGED <<queue, sourcePath, pathname, menuPathname, ctx, fs, slugs, io, begun>>

Next ==
  \/ Begin
  \/ UpdateContentLinks
  \/ ExportContentHeadings
  \/ ExportPageAttributes
  \/ ExportBreadcrumbs
  \/ ExportPageIndex

\* The state before the first document, for given inputs.
InitWith(queues, contexts, disks) ==
  /\ queue \in queues
  /\ ctx \in contexts
  /\ fs \in disks
  /\ pc = "idle"
  /\ mdast = [children |-> <<>>]
  /\ sourcePath = ""
  /\ pathname = ""
  /\ menuPathname = Undefined
  /\ slugs = [occurrences |-> NoOccurrences]
  /\ io = <<>>
  /\ begun = [children |-> <<>>, io |-> 0, occurrences |-> NoOccurrences]

\* Sequences over S of length at most n.
SeqsUpTo(S, n) == UNION {[1..k -> S] : k \in 0..n}

----------------------------------------------------------------------------
(* What the properties below read off a state *)

\* The children that are not synthetic bindings, in order.
Originals(children) == SelectSeq(children, LAMBDA n : n.type # "mdxjsEsm")

\* The synthetic bindings among the children, in order.
Bindings(children) == SelectSeq(children, LAMBDA n : n.type = "mdxjsEsm")

\* The events of the document being processed.
DocEvents == SubSeq(io, begun.io + 1, Len(io))

EventsOf(op) == SelectSeq(DocEvents, LAMBDA e : e.op = op)

AfterLinks == pc \in {"headings", "attributes", "breadcrumbs", "index", "done"}

AfterHeadings == pc \in {"attributes", "breadcrumbs", "index", "done"}

IsAnchor(node) == node.type = "element" /\ node.tagName \in {"a", "A"}

\* The href attribute as written, '' when there is none.
RawHref(node) ==
  IF node.properties.has /\ node.properties.href.t = "string"
  THEN node.properties.href.s ELSE ""

NonLocalPrefixes == {"#", "http://", "https://", "about:"}

\* Empty, fragment-only or with an external scheme, in any letter case.
NonLocal(href) ==
  href = "" \/ \E p \in NonLocalPrefixes : startsWith(toLowerCase(href), p)

\* The length of the markdown extension an href ends in, 0 for none.
ExtLen(href) ==
  IF endsWith(toLowerCase(href), ".mdx") THEN 4
  ELSE IF endsWith(toLowerCase(href), ".md") THEN 3 ELSE 0

\* A local link to a markdown source.
MarkdownLink(node) ==
  IsAnchor(node) /\ ~ NonLocal(trim(RawHref(node))) /\ ExtLen(trim(RawHref(node))) > 0

Target(node, path) == resolve(dirname(path), trim(RawHref(node)))

Broken(node, path, disk) == MarkdownLink(node) /\ Target(node, path) \notin disk

Rewritable(node, path, disk) == MarkdownLink(node) /\ Target(node, path) \in disk

----------------------------------------------------------------------------
(* Documents with links *)

MaxLinkNodes == 2

LinkSource == "/docs/bar.mdx"

LinkHrefs ==
  { "./foo.mdx", "foo.md", " ./foo.mdx", "./foo.md ", "./FOO.MDX", "./missing.md",
    "#foo.md", "HTTPS://x/foo.md", "http://x/foo.mdx", "About:foo.md", "", "./foo",
    "../docs/foo.md" }

LinkNodes ==
  { Element("a", Properties(Str(h), Undefined), "t") : h \in LinkHrefs }
  \cup { Element("A", Properties(Str("foo.md"), Undefined), "t"),
         Element("a", NoProperties, "t"),
         Element("p", Properties(Str("./foo.mdx"), Undefined), "t"),
         Text("./foo.mdx") }

LinkDocuments ==
  { Document(c, LinkSource, "/docs/bar") : c \in SeqsUpTo(LinkNodes, MaxLinkNodes) }

LinkDisks ==
  { {"/docs/foo.mdx", "/docs/foo.md", "/docs/FOO.MDX", "/docs/HTTPS:/x/foo.md",
     "/docs/#foo.md", "/docs/About:foo.md", "/docs/http:/x/foo.mdx", "/docs/foo"},
    {"/docs/foo.md"} }

NoContext == [routes |-> <<>>, menus |-> <<>>]

InitLinks ==
  InitWith({<<d>> : d \in LinkDocuments}, {NoContext}, LinkDisks)

SpecLinks == InitLinks /\ [][Next]_vars

\* C1: every anchor whose href is local, ends in .md or .mdx in any letter
\* case and resolves to an existing file has, as its new href, the original
\* attribute string without its extension; read up to surrounding white
\* space, the new href is the trimmed original less its 3 or 4 last characters.
LinkStripsExtension ==
  AfterLinks =>
    \A i \in 1..Len(begun.children) :
      LET node == begun.children[i]
          href == trim(RawHref(node))
      IN Rewritable(node, sourcePath, fs) =>
           trim(RawHref(Originals(mdast.children)[i]))
             = SubSeq(href, 1, Len(href) - ExtLen(href))

\* The warnings a document's broken links call for, in document order.
RECURSIVE ExpectedWarnings(_, _, _)
ExpectedWarnings(children, path, disk) ==
  IF children = <<>> THEN <<>>
  ELSE (IF Broken(Head(children), path, disk)
        THEN <<WarnEvent(trim(RawHref(Head(children))), path)>> ELSE <<>>)
       \o ExpectedWarnings(Tail(children), path, disk)

\* `now` without the nodes at the positions of the broken links of `orig`.
RECURSIVE DropBroken(_, _, _, _)
DropBroken(now, orig, path, disk) ==
  IF orig = <<>> THEN <<>>
  ELSE (IF Broken(Head(orig), path, disk) THEN <<>> ELSE <<Head(now)>>)
       \o DropBroken(Tail(now), Tail(orig), path, disk)

Hrefs(children) == [i \in 1..Len(children) |-> children[i].properties.href]

\* C7: a broken local markdown link keeps its href, one warning with the
\* link's text and the source path is emitted for each broken link and for
\* no other link, and the other anchors are rewritten as they are in the
\* document without the broken links.
BrokenLinkWarnsAndContinues ==
  AfterLinks =>
    LET orig == begun.children
        now == Originals(mdast.children)
    IN /\ Len(now) = Len(orig)
       /\ \A i \in 1..Len(orig) :
            Broken(orig[i], sourcePath, fs)
              => now[i].properties.href = orig[i].properties.href
       /\ EventsOf("warn") = ExpectedWarnings(orig, sourcePath, fs)
       /\ Hrefs(DropBroken(now, orig, sourcePath, fs))
            = Hrefs(updateContentLinks(DropBroken(orig, orig, sourcePath, fs),
                                       sourcePath, fs).children)

\* A broken link followed by a link that was rewritten.
BrokenLinkWitness ==
  /\ pc = "headings"
  /\ \E i, j \in 1..Len(begun.children) :
       /\ i < j
       /\ Broken(begun.children[i], sourcePath, fs)
       /\ Rewritable(begun.children[j], sourcePath, fs)
       /\ mdast.children[j].properties.href # begun.children[j].properties.href
       /\ Len(EventsOf("warn")) = 1

\* C8: anchors whose href is empty, a fragment or external in any letter
\* case, local hrefs without a markdown extension and nodes that are no
\* anchors leave the link stage as they entered it, and the only existence
\* checks and warnings are those of the local markdown links.
NonLocalUntouched ==
  LET orig == begun.children
  IN /\ pc = "headings" =>
          \A i \in 1..Len(orig) : ~ MarkdownLink(orig[i]) => mdast.children[i] = orig[i]
     /\ AfterLinks =>
          /\ Len(EventsOf("existsSync"))
               = Cardinality({i \in 1..Len(orig) : MarkdownLink(orig[i])})
          /\ Len(EventsOf("warn"))
               = Cardinality({i \in 1..Len(orig) : Broken(orig[i], sourcePath, fs)})

\* An external link in upper case that ends in .md, whose resolved path
\* exists, has passed the link stage.
NonLocalWitness ==
  /\ pc = "headings"
  /\ \E i \in 1..Len(begun.children) :
       /\ IsAnchor(begun.children[i])
       /\ RawHref(begun.children[i]) = "HTTPS://x/foo.md"
       /\ Target(begun.children[i], sourcePath) \in fs
       /\ mdast.children[i] = begun.children[i]

----------------------------------------------------------------------------
(* Documents with headings *)

MaxHeadingNodes == 3

\* The value of the first binding of a name in the tree.
BindingValue(name) ==
  SelectSeq(mdast.children, LAMBDA n : n.type = "mdxjsEsm" /\ n.name = name)[1].init

Outline == BindingValue("headings")

HeadingTags == {"h1", "h2", "h3", "h4", "h5", "h6", "H1", "H2", "H3", "H4", "H5", "H6"}

IsHeading(node) == node.type = "element" /\ node.tagName \in HeadingTags

Level(node) == CHOOSE k \in 1..6 : Char(node.tagName, 2) = Char(Digits, k + 1)

\* An id that is present and neither null nor false.
HasAuthoredId(node) ==
  /\ node.properties.has
  /\ node.properties.id.t \in {"string", "number", "boolean"}
  /\ node.properties.id # False

\* A heading the slugger gives an id.
AutoHeading(node) == IsHeading(node) /\ node.properties.has /\ ~ HasAuthoredId(node)

NoId == Properties(Undefined, Undefined)

HeadingNodes ==
  { Element("h2", NoId, t) : t \in {"foo", "foo-1", "Foo!", "foo 1"} }
  \cup { Element("h1", Properties(Undefined, v), "foo") :
           v \in {Null, False, Zero, Str(""), Str("foo")} }
  \cup { Element("H3", NoProperties, "foo"), Element("p", NoId, "foo") }

HeadingDocuments ==
  { Document(c, "/docs/bar.mdx", "/docs/bar") : c \in SeqsUpTo(HeadingNodes, MaxHeadingNodes) }

InitSlug == InitWith({<<d>> : d \in HeadingDocuments}, {NoContext}, {{}})

SpecSlug == InitSlug /\ [][Next]_vars

\* C4: the ids the slugger assigns within one document are pairwise distinct.
SlugsDistinct ==
  AfterHeadings =>
    \A i, j \in 1..Len(Outline) : i # j => Outline[i].id # Outline[j].id

\* The texts foo, foo-1, foo have been given ids.
SlugsDistinctWitness ==
  /\ AfterHeadings
  /\ Len(Outline) = 3
  /\ Outline[1].text = "foo" /\ Outline[2].text = "foo-1" /\ Outline[3].text = "foo"
  /\ Outline[3].id = "foo-2"

\* The number of entries among the first j of the outline with the text of the j-th.
Occurrence(outline, j) ==
  Cardinality({i \in 1..j : outline[i].text = outline[j].text})

Suffixed(base, n) == IF n = 0 THEN base ELSE base \o "-" \o numToString(n)

\* C5, as claimed: the k-th heading of a text gets that text's slug with the
\* suffix -(k-1), the bare slug for k = 1, whatever the other headings are.
SuffixByOccurrence ==
  AfterHeadings =>
    \A j \in 1..Len(Outline) :
      Outline[j].id = Suffixed(slugger(Outline[j].text), Occurrence(Outline, j) - 1)

\* No earlier heading of another text has been given the slug of the j-th
\* entry's text, bare or with a numeric suffix.
SlugUncontended(outline, j) ==
  \A i \in 1..(j - 1) :
    outline[i].text # outline[j].text =>
      \A n \in 0..Len(outline) : outline[i].id # Suffixed(slugger(outline[j].text), n)

\* C5, amended: the k-th heading of a text gets the suffix -(k-1) provided no
\* earlier heading of a different text was given that slug, bare or suffixed.
SuffixByOccurrenceUncontended ==
  AfterHeadings =>
    \A j \in 1..Len(Outline) :
      SlugUncontended(Outline, j) =>
        Outline[j].id = Suffixed(slugger(Outline[j].text), Occurrence(Outline, j) - 1)

\* The third heading of one text, after a heading of another slug, has the suffix -2.
SuffixWitness ==
  /\ AfterHeadings
  /\ \E j \in 1..Len(Outline) :
       /\ Occurrence(Outline, j) = 3
       /\ SlugUncontended(Outline, j)
       /\ Outline[j].id = "foo-1-2"

\* The outline entries the headings without an authored id call for.
RECURSIVE ExpectedOutline(_, _)
ExpectedOutline(orig, now) ==
  IF orig = <<>> THEN <<>>
  ELSE (IF AutoHeading(Head(orig))
        THEN <<[text |-> Head(orig).text, id |-> Head(now).properties.id.s,
                level |-> Level(Head(orig))]>>
        ELSE <<>>)
       \o ExpectedOutline(Tail(orig), Tail(now))

\* C6: a heading with an id that is present and neither null nor false keeps
\* it and has no outline entry; every heading with properties and no such id
\* has a string id and exactly one entry {text, id, level} with that id, and
\* the entries are in document order.
AuthoredIdsKept ==
  AfterHeadings =>
    LET orig == begun.children
        now == Originals(mdast.children)
    IN /\ Len(now) = Len(orig)
       /\ \A i \in 1..Len(orig) :
            /\ IsHeading(orig[i]) /\ HasAuthoredId(orig[i])
                 => now[i].properties.id = orig[i].properties.id
            /\ AutoHeading(orig[i]) => now[i].properties.id.t = "string"
       /\ Outline = ExpectedOutline(orig, now)

\* A heading with the empty string as id beside a heading that was given one.
AuthoredIdsWitness ==
  /\ AfterHeadings
  /\ Len(Outline) = 1
  /\ \E i, j \in 1..Len(begun.children) :
       /\ IsHeading(begun.children[i])
       /\ begun.children[i].properties.id = Str("")
       /\ AutoHeading(begun.children[j])

----------------------------------------------------------------------------
(* Documents processed one after another *)

MaxRegistryNodes == 2

RegistryNodes ==
  { Element("h2", NoId, t) : t \in {"foo", "foo-1"} }
  \cup { Element("h1", Properties(Undefined, Str("foo")), "foo") }

RegistryDocuments ==
  { Document(c, "/docs/bar.mdx", "/docs/bar") :
      c \in SeqsUpTo(RegistryNodes, MaxRegistryNodes) }

InitRegistry ==
  InitWith({<<d, e>> : d, e \in RegistryDocuments}, {NoContext}, {{}})

SpecRegistry == InitRegistry /\ [][Next]_vars

\* C10: the ids and the outline a document is given are those it is given
\* when it is processed alone from an empty registry, whatever documents the
\* same registry has served before.
RegistryDoesNotLeak ==
  AfterHeadings =>
    LET alone == exportContentHeadings(begun.children, [occurrences |-> NoOccurrences])
    IN /\ Outline = Bindings(alone.children)[1].init
       /\ [i \in 1..Len(begun.children) |-> Originals(mdast.children)[i].properties.id]
            = [i \in 1..Len(begun.children) |-> Originals(alone.children)[i].properties.id]

\* A second document is given a slug the registry held when it was entered.
RegistryWitness ==
  /\ AfterHeadings
  /\ queue = <<>>
  /\ \E j \in 1..Len(Outline) : Outline[j].id \in DOMAIN begun.occurrences

----------------------------------------------------------------------------
(* Pathnames and menu tables *)

MaxSegments == 10

\* '/a' n times: a pathname of n segments.
RECURSIVE Deep(_)
Deep(n) == IF n = 0 THEN "" ELSE "/a" \o Deep(n - 1)

MenuPagePathnames ==
  { Deep(n) : n \in 0..MaxSegments } \cup {"/", "//a", "/a/", "/a/b/c", "/b"}

MenuTablePathnames == {"/a", "/a/a", "/", "", "/a/b"}

MenuTables ==
  { [k \in 1..Len(t) |-> Menu(t[k], TRUE, <<>>)] : t \in SeqsUpTo(MenuTablePathnames, 2) }

InitMenu ==
  InitWith({<<Document(<<Element("p", NoId, "t")>>, "/docs/bar.mdx", p)>> :
              p \in MenuPagePathnames},
           {[routes |-> <<>>, menus |-> t] : t \in MenuTables},
           {{}})

SpecMenu == InitMenu /\ [][Next]_vars

\* The pathname after k truncations of its last segment.
RECURSIVE Candidate(_, _)
Candidate(path, k) == IF k = 0 THEN path ELSE truncate(Candidate(path, k - 1))

Registered(menus, path) == \E i \in 1..Len(menus) : menus[i].pathname = path

\* The nearest registered candidate among the pathname and its first n
\* truncations, no truncation up to it being the root; undefined if none.
Nearest(menus, path, n) ==
  LET hits == { k \in 0..n : /\ Registered(menus, Candidate(path, k))
                             /\ \A j \in 1..k : Candidate(path, j) # "/" }
  IN IF hits = {} THEN Undefined
     ELSE Str(Candidate(path, CHOOSE k \in hits : \A h \in hits : k <= h))

Started == pc # "idle"

\* C2, as claimed: the pathname and each of up to 9 truncations are looked
\* up, and the nearest registered one is returned.
NearestWithinNineTruncations ==
  Started => menuPathname = Nearest(ctx.menus, pathname, MenuIterations)

\* C2, amended: the pathname and each of up to 8 truncations are looked up
\* (9 lookups), and the nearest registered one is returned; undefined if
\* there is none or a truncation gave the root.
NearestWithinEightTruncations ==
  Started => menuPathname = Nearest(ctx.menus, pathname, MenuIterations - 1)

\* A section found by the last lookup, after 8 truncations.
NearestWitness ==
  /\ Started
  /\ pathname = Deep(MenuIterations)
  /\ menuPathname = Str("/a")

----------------------------------------------------------------------------
(* Menu sections *)

MaxMenuItems == 4

MaxMenuDepth == 3

\* The levels of a menu section that exportBreadcrumbs searches.
SearchLevels == 3

MenuHrefs == {"/a/b", "/a"}

\* The item sequences of at most n items in all and at most d levels; an
\* item's text is its position, such as 2.1 for the first item below the
\* second.
RECURSIVE Forests(_, _, _, _)
Forests(n, d, prefix, index) ==
  IF n = 0 \/ d = 0 THEN {<<>>}
  ELSE {<<>>} \cup UNION {
         { <<Item(prefix \o numToString(index), h, sub # <<>>, sub)>> \o rest :
             h \in MenuHrefs,
             sub \in Forests(k - 1, d - 1, prefix \o numToString(index) \o ".", 1),
             rest \in Forests(n - k, d, prefix, index + 1) } : k \in 1..n }

SectionContexts ==
  { [routes |-> <<>>, menus |-> <<Menu(p, TRUE, f)>>] :
      p \in {"/a", "/z"}, f \in Forests(MaxMenuItems, MaxMenuDepth, "", 1) }
  \cup { [routes |-> <<>>, menus |-> <<Menu("/a", FALSE, <<>>)>>], NoContext }

InitSections ==
  InitWith({<<Document(<<Element("p", NoId, "t")>>, "/docs/a/b.mdx", "/a/b")>>},
           SectionContexts, {{}})

SpecSections == InitSections /\ [][Next]_vars

\* The chains {text, href} from a top-level item down to each item of the
\* first `levels` levels, in depth-first pre-order.
RECURSIVE Chains(_, _, _)
Chains(items, above, levels) ==
  IF items = <<>> \/ levels = 0 THEN <<>>
  ELSE LET chain == Append(above, [text |-> Head(items).text, href |-> Head(items).href])
       IN <<chain>>
          \o (IF Head(items).hasItems THEN Chains(Head(items).items, chain, levels - 1)
              ELSE <<>>)
          \o Chains(Tail(items), above, levels)

\* The chain of the first item in pre-order whose href is the pathname.
FirstMatch(menus, section, path) ==
  LET at == {i \in 1..Len(menus) : section.t = "string" /\ menus[i].pathname = section.s}
      menu == menus[CHOOSE i \in at : \A j \in at : i <= j]
      hits == SelectSeq(Chains(menu.items, <<>>, SearchLevels),
                        LAMBDA c : c[Len(c)].href = path)
  IN IF at = {} \/ hits = <<>> THEN <<>> ELSE hits[1]

AfterBreadcrumbs == pc \in {"index", "done"}

\* C3: the breadcrumbs are the chain, root first, down to the first item in
\* depth-first pre-order of levels 1 to 3 whose href is the pathname, and the
\* empty sequence if there is no such item or no section was resolved.
BreadcrumbsFirstInPreorder ==
  AfterBreadcrumbs =>
    BindingValue("breadcrumbs") = FirstMatch(ctx.menus, menuPathname, pathname)

\* A match on the second level below the first item wins over a match of
\* the second top-level item.
BreadcrumbsWitness ==
  /\ AfterBreadcrumbs
  /\ Len(ctx.menus) = 1
  /\ Len(ctx.menus[1].items) = 2
  /\ ctx.menus[1].items[2].href = pathname
  /\ Len(BindingValue("breadcrumbs")) = 2
  /\ BindingValue("breadcrumbs")[2].text = "1.1"

----------------------------------------------------------------------------
(* Whole documents through the whole pipeline *)

MaxNodes == 2

PageNodes ==
  { Element("a", Properties(Str("./foo.mdx"), Undefined), "Foo"),
    Element("a", Properties(Str("./missing.md"), Undefined), "Missing"),
    Element("h2", NoId, "foo"),
    Element("h1", Properties(Undefined, Str("intro")), "Intro"),
    Element("p", NoId, "text"),
    Text("foo") }

PageDocuments ==
  { Document(c, "/docs/a/b.mdx", "/a/b") : c \in SeqsUpTo(PageNodes, MaxNodes) }

NextDocuments ==
  { Document(<<Element("h2", NoId, "foo")>>, "/docs/a/c.mdx", "/a/c"),
    Document(<<>>, "/docs/z.mdx", "/z") }

PageContexts ==
  { NoContext,
    [routes |-> <<Route("/a/b", TRUE, <<<<"title", "B">>>>), Route("/a/c", FALSE, <<>>)>>,
     menus |-> <<Menu("/a", TRUE,
                      <<Item("A", "/a", TRUE, <<Item("B", "/a/b", FALSE, <<>>)>>)>>)>>] }

Init ==
  InitWith({<<d>> : d \in PageDocuments}
             \cup {<<d, e>> : d \in PageDocuments, e \in NextDocuments},
           PageContexts, {{"/docs/a/foo.mdx"}})

Spec == Init /\ [][Next]_vars

\* The names of the bindings injected when the transformer is at a position,
\* the last injected first.
Injected(at) ==
  CASE at = "attributes" -> <<"headings">>
    [] at = "breadcrumbs" -> <<"attributes", "headings">>
    [] at = "index" -> <<"breadcrumbs", "attributes", "headings">>
    [] at = "done" -> <<"index", "breadcrumbs", "attributes", "headings">>
    [] OTHER -> <<>>

\* What of a node no stage changes.
Fixed(node) ==
  IF node.type = "mdxjsEsm" THEN node
  ELSE [type |-> node.type, tagName |-> node.tagName, text |-> node.text]

\* C9: after every stage the bindings injected so far are the first
\* children, the last injected first, and the children the document came
\* with follow them in their order; after the run the children are index,
\* breadcrumbs, attributes, headings and then the document's.
BindingsAtFront ==
  Started =>
    LET names == Injected(pc)
        k == Len(names)
        orig == begun.children
    IN /\ Len(mdast.children) = k + Len(orig)
       /\ \A i \in 1..k :
            mdast.children[i].type = "mdxjsEsm" /\ mdast.children[i].name = names[i]
       /\ \A i \in 1..Len(orig) : Fixed(mdast.children[k + i]) = Fixed(orig[i])

\* A run has ended on a document of two different children.
BindingsWitness ==
  /\ pc = "done"
  /\ Len(begun.children) = 2
  /\ begun.children[1] # begun.children[2]
  /\ Len(Bindings(mdast.children)) = 4
  /\ mdast.children[1].name = "index"

----------------------------------------------------------------------------
(* The transformer called again on a tree it has annotated *)

MaxRuns == 2

BindingNames == {"headings", "attributes", "breadcrumbs", "index"}

\* The number of bindings of a name among the children.
Count(name, children) ==
  Len(SelectSeq(children, LAMBDA n : n.type = "mdxjsEsm" /\ n.name = name))

\* A caller hands the same tree and file to the transformer once more:
\* lines 19-22 on the tree as the last run left it.
Rerun ==
  /\ pc = "done"
  /\ Count("index", mdast.children) < MaxRuns
  /\ menuPathname' = getMenuPathname(ctx, pathname)
  /\ begun' = [children |-> mdast.children, io |-> Len(io),
               occurrences |-> slugs.occurrences]
  /\ pc' = "links"
  /\ UNCHANGED <<queue, mdast, sourcePath, pathname, ctx, fs, slugs, io>>

NextRerun ==
  \/ Next
  \/ Rerun

SpecRerun == Init /\ [][NextRerun]_vars

\* The position that follows a position.
Successor(at) ==
  CASE at = "links" -> "headings"
    [] at = "headings" -> "attributes"
    [] at = "attributes" -> "breadcrumbs"
    [] at = "breadcrumbs" -> "index"
    [] at = "index" -> "done"
    [] OTHER -> "links"

\* At every position the tree holds, beyond the bindings it was entered
\* with, exactly one binding for each stage passed and no other; and it was
\* entered with as many bindings of one name as of any other.
OneBindingPerStage ==
  Started =>
    /\ \A name \in BindingNames :
         /\ Count(name, mdast.children)
              = Count(name, begun.children)
                + (IF \E i \in 1..Len(Injected(pc)) : Injected(pc)[i] = name THEN 1 ELSE 0)
         /\ Count(name, begun.children) = Count("index", begun.children)
    /\ Len(Bindings(mdast.children))
         = Len(Bindings(begun.children)) + Len(Injected(pc))

\* C11: a run passes the stages links, headings, attributes, breadcrumbs,
\* index in this order, and it adds exactly one binding of each of the four
\* names and no other, whatever the links, routes and menus are; a tree
\* that has been through k runs holds k of each.
RunAddsOneOfEach ==
  /\ []OneBindingPerStage
  /\ [][pc' = Successor(pc)]_vars

\* A second run has ended on a tree with a broken link and a breadcrumb
\* match: two bindings of each name.
RunAddsOneOfEachWitness ==
  /\ pc = "done"
  /\ \A name \in BindingNames : Count(name, mdast.children) = 2
  /\ Len(Bindings(mdast.children)) = 8
  /\ Len(EventsOf("warn")) = 1
  /\ BindingValue("breadcrumbs") # <<>>

----------------------------------------------------------------------------
(* Ids across a whole document *)

\* A heading that leaves the slugger with an id: an authored or an assigned one.
HasId(orig) == IsHeading(orig) /\ (HasAuthoredId(orig) \/ AutoHeading(orig))

\* C12: no id the slugger assigns is the id of another heading of the
\* document, the headings with an authored id included.
AssignedIdsUnique ==
  AfterHeadings =>
    LET orig == begun.children
        now == Originals(mdast.children)
    IN \A i, j \in 1..Len(orig) :
         (i # j /\ AutoHeading(orig[i]) /\ HasId(orig[j]))
           => now[i].properties.id # now[j].properties.id

=============================================================================
